---- MODULE Spec2Model ----
(***************************************************************************)
(* A model of the figlet crate: the smushing rule table (layout.rs), the   *)
(* rule set of a font (rules.rs), and the font header parser, the layout   *)
(* decoder and the render engine (font.rs).                                *)
(*                                                                         *)
(* Characters are one-character strings, Rust strings and Vec<char> are    *)
(* sequences of characters, Option<T> is <<>> (None) or <<v>> (Some(v)),   *)
(* Option<LayoutMode> is the mode's name or "None".                        *)
(***************************************************************************)
EXTENDS Integers, Sequences, FiniteSets, TLC

VARIABLES
    full_layout,    \* get_layout's argument full_layout: Option<isize>
    old_layout,     \* get_layout's argument old_layout: isize
    layout_pc,      \* "call", "returned" or "panic"
    rules,          \* the Rules value get_layout returned
    rule,           \* smush's receiver: a SmushingRule
    char1,          \* smush's argument char1
    char2,          \* smush's argument char2
    hardblank,      \* smush's argument hardblank
    smushed,        \* what smush returned: Option<char>
    smush_pc,       \* "idle", "call" or "returned"
    line,           \* FontOpts::parse's argument, as its whitespace-separated tokens
    font_head,      \* what FontOpts::parse returned: Ok(FontOpts) or Err
    parse_pc,       \* "idle", "call", "returned" or "panic"
    font,           \* the Font convert renders with: font_head, chars, rules
    message,        \* the characters of convert's message consumed so far
    result,         \* convert's accumulator: height rows of characters
    last,           \* the last iteration of convert's loop: its character, the
                    \* key looked up, the glyph, the accumulator before, the overlay
    banner,         \* the String convert returned
    render_pc,      \* "idle", "loop", "returned", or the panic: "lookup_panic",
                    \* "assert_panic", "index_panic", "none_panic"
    data,           \* parse_font's argument data, as data.lines() yields it: the
                    \* header line (its tokens, None when data has no line) and
                    \* the lines after it
    parsed,         \* what parse_font returned: Ok(Font) or Err
    parse_font_pc   \* "idle", "call", "returned" or "panic"

layout_vars == <<full_layout, old_layout, layout_pc, rules>>
smush_vars == <<rule, char1, char2, hardblank, smushed, smush_pc>>
parse_vars == <<line, font_head, parse_pc>>
render_vars == <<font, message, result, last, banner, render_pc>>
parse_font_vars == <<data, parsed, parse_font_pc>>

----------------------------------------------------------------------------
(* Bounds of the model. *)

\* full_layout ranges over Some(-LayoutBelow) .. Some(MaxLayout), and None.
MaxLayout == 32770
LayoutBelow == 2

----------------------------------------------------------------------------
(* layout.rs: enum SmushingRule, its discriminants. *)

HorizontalEqualChar == 1
HorizontalUnderscore == 2
HorizontalHierarchy == 4
HorizontalOppositePair == 8
HorizontalBigX == 16
HorizontalHardblank == 32
HorizontalFitting == 64
HorizontalSmushing == 128
VerticalEqualChar == 256
VerticalUnderscore == 512
VerticalHierarchy == 1024
VerticalHorizontalLine == 2048
VerticalVerticalLine == 4096
VerticalFitting == 8192
VerticalSmushing == 16384

\* SmushingRule::iter(): the variants in declaration order.
SmushingRule ==
    << HorizontalEqualChar, HorizontalUnderscore, HorizontalHierarchy,
       HorizontalOppositePair, HorizontalBigX, HorizontalHardblank,
       HorizontalFitting, HorizontalSmushing, VerticalEqualChar,
       VerticalUnderscore, VerticalHierarchy, VerticalHorizontalLine,
       VerticalVerticalLine, VerticalFitting, VerticalSmushing >>

LayoutMode == {"FullWidth", "Fitting", "ControlledSmush", "UniversalSmush"}

get_type(code) ==
    IF code <= 255 THEN "Horizontal" ELSE "Vertical"

\* get_mode with the UniversalSmush arm lost.
get_mode_without_universal(code) ==
    IF code = 8192 \/ code = 64 THEN "Fitting" ELSE "ControlledSmush"

\* The first arm that matches decides: the second arm's 8192 is never reached.
get_mode(code) ==
    IF code = 8192 \/ code = 64 THEN "Fitting"
    ELSE IF code = 128 \/ code = 8192 THEN "UniversalSmush"
    ELSE "ControlledSmush"

----------------------------------------------------------------------------
(* Sequence helpers standing for Rust's Vec operations. *)

\* Vec::retain(|r| *r != x)
RECURSIVE Retain(_, _)
Retain(s, x) ==
    IF s = <<>> THEN <<>>
    ELSE IF Head(s) = x THEN Retain(Tail(s), x)
    ELSE <<Head(s)>> \o Retain(Tail(s), x)

Range(s) == {s[i] : i \in DOMAIN s}

----------------------------------------------------------------------------
(* font.rs: Font::get_layout. *)

unwrap_or(opt, default) == IF opt = <<>> THEN default ELSE opt[1]

\* The loop of lines 123-137, over rules.into_iter().rev(): i runs from the
\* last variant down to the first. st holds ly and the four accumulators.
RECURSIVE decompose(_, _)
decompose(i, st) ==
    IF i = 0 THEN st
    ELSE LET code == SmushingRule[i] IN
         IF st.ly >= code
         THEN IF get_type(code) = "Horizontal"
              THEN decompose(i - 1,
                       [st EXCEPT !.ly = @ - code,
                                  !.horizontal_rules = Append(@, code),
                                  !.horizontal_layout = get_mode(code)])
              ELSE decompose(i - 1,
                       [st EXCEPT !.ly = @ - code,
                                  !.vertical_rules = Append(@, code),
                                  !.vertical_layout = get_mode(code)])
         ELSE decompose(i - 1, st)

\* horizontal_fallback with the retain of line 148 lost.
horizontal_fallback_without_retain(st, old) ==
    IF st.horizontal_layout = "None"
    THEN IF old = 0
         THEN [st EXCEPT !.horizontal_layout = "Fitting",
                         !.vertical_rules = Append(@, HorizontalFitting)]
         ELSE IF old = -1
         THEN [st EXCEPT !.horizontal_layout = "FullWidth"]
         ELSE st
    ELSE st

\* Lines 138-150.
horizontal_fallback(st, old) ==
    IF st.horizontal_layout = "None"
    THEN IF old = 0
         THEN [st EXCEPT !.horizontal_layout = "Fitting",
                         !.vertical_rules = Append(@, HorizontalFitting)]
         ELSE IF old = -1
         THEN [st EXCEPT !.horizontal_layout = "FullWidth"]
         ELSE st
    ELSE IF st.horizontal_layout = "ControlledSmush"
         THEN [st EXCEPT !.horizontal_rules = Retain(@, HorizontalSmushing)]
         ELSE st

\* Lines 152-159.
vertical_fallback(st) ==
    IF st.vertical_layout = "None"
    THEN [st EXCEPT !.vertical_layout = "FullWidth"]
    ELSE IF st.vertical_layout = "ControlledSmush"
         THEN [st EXCEPT !.vertical_rules = Retain(@, VerticalSmushing)]
         ELSE st

\* The state of get_layout as it reaches line 161: horizontal_layout and
\* vertical_layout are still Option<LayoutMode>.
get_layout(full, old) ==
    vertical_fallback(
        horizontal_fallback(
            decompose(Len(SmushingRule),
                      [ly |-> unwrap_or(full, old),
                       horizontal_rules |-> <<>>,
                       vertical_rules |-> <<>>,
                       horizontal_layout |-> "None",
                       vertical_layout |-> "None"]),
            old))

\* Lines 161-166: Option::unwrap aborts on None.
layout_returns(full, old) ==
    LET st == get_layout(full, old) IN
    st.horizontal_layout # "None" /\ st.vertical_layout # "None"

\* The Rules value of lines 161-166.
Rules(st) ==
    [horizontal_layout |-> st.horizontal_layout,
     vertical_layout |-> st.vertical_layout,
     horizontal_rules |-> st.horizontal_rules,
     vertical_rules |-> st.vertical_rules]

\* rules.rs: impl Default for Rules.
DefaultRules ==
    [horizontal_layout |-> "FullWidth",
     vertical_layout |-> "FullWidth",
     horizontal_rules |-> <<>>,
     vertical_rules |-> <<>>]

----------------------------------------------------------------------------
(* layout.rs: SmushingRule::smush. *)

\* str::find(char): the index (from 0) of the first occurrence, or None.
find(str, c) ==
    IF \E i \in DOMAIN str : str[i] = c
    THEN <<(CHOOSE i \in DOMAIN str : str[i] = c /\ \A j \in 1..(i - 1) : str[j] # c) - 1>>
    ELSE <<>>

\* str::contains(char)
contains(str, c) == \E i \in DOMAIN str : str[i] = c

abs(n) == IF n < 0 THEN -n ELSE n

max(a, b) == IF a >= b THEN a ELSE b

\* "|/\\[]{}()<>"
underscore_chars == <<"|", "/", "\\", "[", "]", "{", "}", "(", ")", "<", ">">>

\* "| /\\ [] {} () <>"
classes ==
    <<"|", " ", "/", "\\", " ", "[", "]", " ", "{", "}", " ", "(", ")", " ", "<", ">">>

\* "[] {} ()"
brackets == <<"[", "]", " ", "{", "}", " ", "(", ")">>

equal_char(c1, c2, hb) ==
    IF c1 = c2 /\ c1 # hb THEN <<c1>> ELSE <<>>

underscore(c1, c2, hb) ==
    IF c1 = "_" /\ contains(underscore_chars, c2) THEN <<c2>>
    ELSE IF c2 = "_" /\ contains(underscore_chars, c1) THEN <<c1>>
    ELSE <<>>

hierarchy(c1, c2, hb) ==
    LET pos1 == find(classes, c1)
        pos2 == find(classes, c2)
    IN  IF pos1 # <<>> /\ pos2 # <<>>
             /\ pos1[1] # pos2[1] /\ abs(pos1[1] - pos2[1]) # 1
        THEN <<classes[max(pos1[1], pos2[1]) + 1]>>
        ELSE <<>>

opposite_pair(c1, c2, hb) ==
    LET pos1 == find(brackets, c1)
        pos2 == find(brackets, c2)
    IN  IF pos1 # <<>> /\ pos2 # <<>> /\ abs(pos1[1] - pos2[1]) = 1
        THEN <<"|">>
        ELSE <<>>

big_x(c1, c2, hb) ==
    IF c1 = "/" /\ c2 = "\\" THEN <<"|">>
    ELSE IF c1 = "\\" /\ c2 = "/" THEN <<"Y">>
    ELSE IF c1 = ">" /\ c2 = "<" THEN <<"X">>
    ELSE <<>>

hardblank_rule(c1, c2, hb) ==
    IF c1 = hb /\ c2 = hb THEN <<hb>> ELSE <<>>

fitting(c1, c2, hb) ==
    IF c1 = " " /\ c2 = " " THEN <<" ">> ELSE <<>>

smushing(c1, c2, hb) ==
    IF c1 # hb /\ c2 # hb THEN <<c2>> ELSE <<>>

horizontal_line(c1, c2, hb) ==
    IF (c1 = "-" /\ c2 = "_") \/ (c1 = "_" /\ c2 = "-") THEN <<"=">> ELSE <<>>

vertical_line(c1, c2, hb) ==
    IF c1 = "|" /\ c2 = "|" THEN <<"|">> ELSE <<>>

\* The match of lines 38-159; VerticalFitting and VerticalSmushing fall to
\* the default arm.
smush(r, c1, c2, hb) ==
    CASE r = HorizontalEqualChar -> equal_char(c1, c2, hb)
      [] r = HorizontalUnderscore -> underscore(c1, c2, hb)
      [] r = HorizontalHierarchy -> hierarchy(c1, c2, hb)
      [] r = HorizontalOppositePair -> opposite_pair(c1, c2, hb)
      [] r = HorizontalBigX -> big_x(c1, c2, hb)
      [] r = HorizontalHardblank -> hardblank_rule(c1, c2, hb)
      [] r = HorizontalFitting -> fitting(c1, c2, hb)
      [] r = HorizontalSmushing -> smushing(c1, c2, hb)
      [] r = VerticalEqualChar -> equal_char(c1, c2, hb)
      [] r = VerticalUnderscore -> underscore(c1, c2, hb)
      [] r = VerticalHierarchy -> hierarchy(c1, c2, hb)
      [] r = VerticalHorizontalLine -> horizontal_line(c1, c2, hb)
      [] r = VerticalVerticalLine -> vertical_line(c1, c2, hb)
      [] OTHER -> <<>>

----------------------------------------------------------------------------
(* font.rs: FontOpts::parse. The line is held as the tokens that            *)
(* split_ascii_whitespace yields, each a non-empty sequence of characters.  *)

digits == <<"0", "1", "2", "3", "4", "5", "6", "7", "8", "9">>

\* The value of a sequence of digits, most significant first.
RECURSIVE digits_value(_, _)
digits_value(tok, acc) ==
    IF tok = <<>> THEN acc
    ELSE digits_value(Tail(tok), 10 * acc + find(digits, Head(tok))[1])

all_digits(tok) == tok # <<>> /\ \A i \in DOMAIN tok : contains(digits, tok[i])

\* str::parse::<usize>(): an optional "+" and digits. <<"Ok", n>> or <<"Err">>.
\* The tokens of the model are too short to overflow.
parse_usize(tok) ==
    IF all_digits(tok) THEN <<"Ok", digits_value(tok, 0)>>
    ELSE IF Head(tok) = "+" /\ all_digits(Tail(tok))
         THEN <<"Ok", digits_value(Tail(tok), 0)>>
    ELSE <<"Err">>

\* str::parse::<isize>(): an optional sign and digits.
parse_isize(tok) ==
    IF Head(tok) = "-" /\ all_digits(Tail(tok))
    THEN <<"Ok", -digits_value(Tail(tok), 0)>>
    ELSE parse_usize(tok)

\* Iterator::next() on the tokens: the i-th token, or None.
next_token(tokens, i) == IF i <= Len(tokens) THEN <<tokens[i]>> ELSE <<>>

\* Result<T, E>::ok()
ok(res) == IF res[1] = "Ok" THEN <<res[2]>> ELSE <<>>

\* Lines 26-30: the mandatory fields in order, tokens 2..6, each
\* head.next().unwrap().parse()?. The first missing token aborts, the first
\* token that does not parse returns its error. old_layout (token 5) is isize.
RECURSIVE parse_mandatory(_, _, _)
parse_mandatory(tokens, i, values) ==
    IF i > 6 THEN <<"Ok", values>>
    ELSE IF next_token(tokens, i) = <<>> THEN <<"panic">>
    ELSE LET res == IF i = 5 THEN parse_isize(tokens[i])
                    ELSE parse_usize(tokens[i])
         IN  IF res[1] = "Err" THEN <<"Err">>
             ELSE parse_mandatory(tokens, i + 1, Append(values, res[2]))

\* FontOpts::parse: <<"Ok", FontOpts>>, <<"Err">> (a ParseIntError), or
\* <<"panic">> (an unwrap of None).
parse(tokens) ==
    IF next_token(tokens, 1) = <<>> THEN <<"panic">>
    ELSE
    LET signature == tokens[1]
        mandatory == parse_mandatory(tokens, 2, <<>>)
        print_direction ==
            parse_usize(unwrap_or(next_token(tokens, 7), <<"0">>))
        full == IF next_token(tokens, 8) = <<>> THEN <<>>
                ELSE ok(parse_isize(tokens[8]))
        codetag == IF next_token(tokens, 9) = <<>> THEN <<>>
                   ELSE ok(parse_usize(tokens[9]))
    IN  IF mandatory[1] # "Ok" THEN mandatory
        ELSE IF print_direction[1] = "Err" THEN <<"Err">>
        ELSE <<"Ok",
               [hardblank |-> signature[Len(signature)],
                height |-> mandatory[2][1],
                baseline |-> mandatory[2][2],
                max_length |-> mandatory[2][3],
                old_layout |-> mandatory[2][4],
                comment_lines |-> mandatory[2][5],
                print_direction |-> print_direction[2],
                full_layout |-> full,
                codetag_count |-> codetag]>>

----------------------------------------------------------------------------
(* rules.rs: Rules::smushes_horizontal, Rules::smush_horizontal. *)

smushes_horizontal(R, c1, c2, hb) ==
    \E i \in DOMAIN R.horizontal_rules :
        smush(R.horizontal_rules[i], c1, c2, hb) # <<>>

\* The loop of lines 28-33: the first rule, in list order, that applies.
RECURSIVE first_smush(_, _, _, _)
first_smush(rs, c1, c2, hb) ==
    IF rs = <<>> THEN <<>>
    ELSE IF smush(Head(rs), c1, c2, hb) # <<>> THEN smush(Head(rs), c1, c2, hb)
    ELSE first_smush(Tail(rs), c1, c2, hb)

smush_horizontal(R, c1, c2, hb) ==
    IF c1 = " " THEN <<c2>>
    ELSE IF c2 = " " THEN <<c1>>
    ELSE IF R.horizontal_layout = "UniversalSmush"
         THEN smush(HorizontalSmushing, c1, c2, hb)
    ELSE first_smush(R.horizontal_rules, c1, c2, hb)

----------------------------------------------------------------------------
(* font.rs: Font::calc_overlay, Font::add_char, Font::convert. *)

\* cs.iter().rev().take_while(|c| **c == ' ').count()
RECURSIVE trailing_spaces(_)
trailing_spaces(cs) ==
    IF cs = <<>> \/ cs[Len(cs)] # " " THEN 0
    ELSE 1 + trailing_spaces(SubSeq(cs, 1, Len(cs) - 1))

\* fs.iter().take_while(|c| **c == ' ').count()
RECURSIVE leading_spaces(_)
leading_spaces(fs) ==
    IF fs = <<>> \/ Head(fs) # " " THEN 0
    ELSE 1 + leading_spaces(Tail(fs))

\* Lines 210-231: one row's overlay.
row_overlay(F, cs, fs) ==
    LET emptys1 == trailing_spaces(cs)
        emptys2 == leading_spaces(fs)
        a == cs[Len(cs) - emptys1]
        b == fs[emptys2 + 1]
        hb == F.font_head.hardblank
    IN  IF /\ emptys1 < Len(cs)
           /\ emptys2 < Len(fs)
           /\ \/ /\ F.rules.horizontal_layout = "UniversalSmush"
                 /\ smush(HorizontalSmushing, a, b, hb) # <<>>
              \/ smushes_horizontal(F.rules, a, b, hb)
        THEN emptys1 + emptys2 + 1
        ELSE emptys1 + emptys2

\* The loop of lines 209-236 over chars.iter().zip(figchar.iter()), from row r.
RECURSIVE min_overlay(_, _, _, _, _)
min_overlay(F, chars, figchar, r, max_overlay) ==
    IF r > Len(chars) \/ r > Len(figchar) THEN max_overlay
    ELSE LET overlay == row_overlay(F, chars[r], figchar[r])
         IN  min_overlay(F, chars, figchar, r + 1,
                         IF overlay < max_overlay THEN overlay ELSE max_overlay)

\* calc_overlay without the return of lines 203-205.
calc_overlay_always_searching(F, chars, figchar) ==
    min_overlay(F, chars, figchar, 1, Len(chars[1]))

\* calc_overlay asking the universal rule whatever the mode.
calc_overlay_ignoring_mode(F, chars, figchar) ==
    IF F.rules.horizontal_layout = "FullWidth" THEN 0
    ELSE min_overlay([F EXCEPT !.rules.horizontal_layout = "UniversalSmush"],
                     chars, figchar, 1, Len(chars[1]))

\* Called once the assert_eq of line 202 has passed and, in a mode other than
\* FullWidth, chars[0] is known to be there (add_char checks both).
calc_overlay(F, chars, figchar) ==
    IF F.rules.horizontal_layout = "FullWidth" THEN 0
    ELSE min_overlay(F, chars, figchar, 1, Len(chars[1]))

\* The loop of lines 187-196 on one row, from column k (counted from 0), and
\* the extend_from_slice of line 197. <<"ok", row>>, or the panic: an index
\* out of the row (cs1l - overlay below zero, cs1[col], cs2[k],
\* cs2[overlay..]) or the unwrap of a None.
RECURSIVE merge_row(_, _, _, _, _, _)
merge_row(F, cs1, cs1l, cs2, overlay, k) ==
    IF k >= overlay
    THEN IF overlay > Len(cs2) THEN <<"index_panic">>
         ELSE <<"ok", cs1 \o SubSeq(cs2, overlay + 1, Len(cs2))>>
    ELSE LET col == cs1l - overlay + k IN
         IF col < 0 \/ col >= Len(cs1) \/ k >= Len(cs2) THEN <<"index_panic">>
         ELSE LET smushed_char == smush_horizontal(F.rules, cs1[col + 1], cs2[k + 1],
                                                    F.font_head.hardblank)
              IN  IF smushed_char = <<>> THEN <<"none_panic">>
                  ELSE merge_row(F, [cs1 EXCEPT ![col + 1] = smushed_char[1]],
                                 cs1l, cs2, overlay, k + 1)

\* The loop of line 184 over chars.iter_mut().zip(figchar), from row r: the
\* rows after the shorter of the two are left as they are.
RECURSIVE merge_rows(_, _, _, _, _)
merge_rows(F, chars, figchar, overlay, r) ==
    IF r > Len(chars) \/ r > Len(figchar) THEN <<"ok", chars>>
    ELSE LET row == merge_row(F, chars[r], Len(chars[r]), figchar[r], overlay, 0)
         IN  IF row[1] # "ok" THEN row
             ELSE merge_rows(F, [chars EXCEPT ![r] = row[2]], figchar, overlay, r + 1)

\* add_char: <<"ok", chars, overlay>> or <<the panic, chars, overlay>>.
add_char(F, chars, figchar) ==
    IF Len(chars) # Len(figchar) THEN <<"assert_panic", chars, 0>>
    ELSE IF Len(chars) = 0 /\ F.rules.horizontal_layout # "FullWidth"
         THEN <<"index_panic", chars, 0>>
    ELSE LET overlay == calc_overlay(F, chars, figchar)
             merged == merge_rows(F, chars, figchar, overlay, 1)
         IN  IF merged[1] = "ok" THEN <<"ok", merged[2], overlay>>
             ELSE <<merged[1], chars, overlay>>

\* c as u16, on a char's code point.
as_u16(c) == c % 65536

\* Line 170: vec![vec![' '; 0]; height]
empty_rows(height) == [r \in 1..height |-> <<>>]

\* Lines 175-179: the rows joined by "\n".
RECURSIVE join(_)
join(rows) ==
    IF rows = <<>> THEN <<>>
    ELSE IF Len(rows) = 1 THEN rows[1]
    ELSE rows[1] \o <<"\n">> \o join(Tail(rows))

----------------------------------------------------------------------------
(* font.rs: Font::parse_font. *)

\* Line 86: (32..126).chain(vec![196, 214, 220, 228, 246, 252, 223]).
char_nums ==
    [i \in 1..101 |->
        IF i <= 94 THEN 31 + i
        ELSE <<196, 214, 220, 228, 246, 252, 223>>[i - 94]]

\* Iterator::take(n) on the lines still to read, and the lines it leaves.
take(ls, n) == SubSeq(ls, 1, IF n < Len(ls) THEN n ELSE Len(ls))

after_take(ls, n) == SubSeq(ls, n + 1, Len(ls))

\* str::replace(from, "") with a one-character from: every occurrence of
\* from is taken out of l.
replace(l, from) == Retain(l, from)

\* The closure of lines 94-97 on one line of ASCII characters: l.len() - 1
\* aborts on an empty line; last_char is the line's last character.
strip(l) ==
    IF l = <<>> THEN <<"panic">>
    ELSE LET last_char == l[Len(l)]
         IN  <<"ok", replace(l, last_char)>>

\* slice::chunks(size), size > 0: the last chunk is what is left.
chunks(v, size) ==
    [i \in 1..((Len(v) + size - 1) \div size) |->
        SubSeq(v, (i - 1) * size + 1,
               IF i * size < Len(v) THEN i * size ELSE Len(v))]

\* Lines 100-102: char_nums zipped with the chunks, collected into a map.
fig_chars(glyphs) ==
    LET n == IF Len(glyphs) < Len(char_nums) THEN Len(glyphs) ELSE Len(char_nums)
    IN  [code \in {char_nums[i] : i \in 1..n} |->
            glyphs[CHOOSE i \in 1..n : char_nums[i] = code]]

\* parse_font: <<"Ok", Font>>, <<"Err">> or <<"panic">>. d.header is the
\* first line of data, as its tokens; d.rest the lines after it.
parse_font(name, d) ==
    IF d.header = <<>> THEN <<"panic">>
    ELSE LET head == parse(d.header[1]) IN
         IF head[1] # "Ok" THEN head
         ELSE LET fh == head[2]
                  comment == join(take(d.rest, fh.comment_lines))
                  glyph_lines == after_take(d.rest, fh.comment_lines)
                  line_vec == [i \in DOMAIN glyph_lines |-> strip(glyph_lines[i])[2]]
              IN  IF \E i \in DOMAIN glyph_lines : strip(glyph_lines[i])[1] = "panic"
                  THEN <<"panic">>
                  ELSE IF fh.height = 0 THEN <<"panic">>
                  ELSE IF ~layout_returns(fh.full_layout, fh.old_layout)
                  THEN <<"panic">>
                  ELSE <<"Ok",
                         [name |-> name,
                          font_head |-> fh,
                          meta_data |-> comment,
                          chars |-> fig_chars(chunks(line_vec, fh.height)),
                          rules |-> Rules(get_layout(fh.full_layout,
                                                     fh.old_layout))]>>

----------------------------------------------------------------------------
(* The state of each part before it is called. *)

LayoutIdle ==
    /\ full_layout = <<>>
    /\ old_layout = 0
    /\ layout_pc = "idle"
    /\ rules = DefaultRules

SmushIdle ==
    /\ rule = HorizontalEqualChar
    /\ char1 = " "
    /\ char2 = " "
    /\ hardblank = "$"
    /\ smushed = <<>>
    /\ smush_pc = "idle"

ParseIdle ==
    /\ line = <<>>
    /\ font_head = <<"Err">>
    /\ parse_pc = "idle"

NoLast == [c |-> -1, key |-> -1, figchar |-> <<>>, before |-> <<>>, overlay |-> 0]

RenderIdle ==
    /\ font = [font_head |-> [hardblank |-> "$", height |-> 0,
                              full_layout |-> <<>>, old_layout |-> -1],
               chars |-> <<>>,
               rules |-> DefaultRules]
    /\ message = <<>>
    /\ result = <<>>
    /\ last = NoLast
    /\ banner = <<>>
    /\ render_pc = "idle"

ParseFontIdle ==
    /\ data = [header |-> <<>>, rest |-> <<>>]
    /\ parsed = <<"Err">>
    /\ parse_font_pc = "idle"

vars == <<layout_vars, smush_vars, parse_vars, render_vars, parse_font_vars>>

----------------------------------------------------------------------------
(* The layout decoder run on every input of the bounded domain. *)

FullLayouts == {<<>>} \cup {<<n>> : n \in (-LayoutBelow)..MaxLayout}
OldLayouts == ((-LayoutBelow)..1) \cup {15}

InitLayout ==
    /\ full_layout \in FullLayouts
    /\ old_layout \in OldLayouts
    /\ layout_pc = "call"
    /\ rules = DefaultRules
    /\ SmushIdle
    /\ ParseIdle
    /\ RenderIdle
    /\ ParseFontIdle

GetLayoutReturn ==
    /\ layout_pc = "call"
    /\ layout_returns(full_layout, old_layout)
    /\ rules' = Rules(get_layout(full_layout, old_layout))
    /\ layout_pc' = "returned"
    /\ UNCHANGED <<full_layout, old_layout, smush_vars, parse_vars, render_vars, parse_font_vars>>

GetLayoutPanic ==
    /\ layout_pc = "call"
    /\ ~layout_returns(full_layout, old_layout)
    /\ layout_pc' = "panic"
    /\ UNCHANGED <<full_layout, old_layout, rules, smush_vars, parse_vars, render_vars, parse_font_vars>>

NextLayout ==
    \/ GetLayoutReturn
    \/ GetLayoutPanic

SpecLayout == InitLayout /\ [][NextLayout]_vars

----------------------------------------------------------------------------
(* One rule's smush run on every pair of characters of the rule tables. *)

SmushChars ==
    Range(classes) \cup Range(underscore_chars) \cup {"_", "-", "$", "a"}

Hardblanks == {"$", "a"}

InitSmush ==
    /\ rule \in Range(SmushingRule)
    /\ char1 \in SmushChars
    /\ char2 \in SmushChars
    /\ hardblank \in Hardblanks
    /\ smushed = <<>>
    /\ smush_pc = "call"
    /\ LayoutIdle
    /\ ParseIdle
    /\ RenderIdle
    /\ ParseFontIdle

Smush ==
    /\ smush_pc = "call"
    /\ smushed' = smush(rule, char1, char2, hardblank)
    /\ smush_pc' = "returned"
    /\ UNCHANGED <<rule, char1, char2, hardblank, layout_vars, parse_vars, render_vars, parse_font_vars>>

NextSmush == Smush

SpecSmush == InitSmush /\ [][NextSmush]_vars

----------------------------------------------------------------------------
(* The header parser run on every line of up to MaxTokens tokens. *)

MaxTokens == 9

Signatures == {<<"f", "l", "f", "2", "a", "$">>}

Tokens == {<<"8">>, <<"-", "1">>, <<"x">>}

HeaderLines ==
    {<<>>} \cup
    UNION {{<<sig>> \o fields : sig \in Signatures,
                                fields \in [1..n -> Tokens]}
           : n \in 0..(MaxTokens - 1)}

InitParse ==
    /\ line \in HeaderLines
    /\ font_head = <<"Err">>
    /\ parse_pc = "call"
    /\ LayoutIdle
    /\ SmushIdle
    /\ RenderIdle
    /\ ParseFontIdle

ParseReturn ==
    /\ parse_pc = "call"
    /\ parse(line)[1] # "panic"
    /\ font_head' = parse(line)
    /\ parse_pc' = "returned"
    /\ UNCHANGED <<line, layout_vars, smush_vars, render_vars, parse_font_vars>>

ParsePanic ==
    /\ parse_pc = "call"
    /\ parse(line)[1] = "panic"
    /\ parse_pc' = "panic"
    /\ UNCHANGED <<line, font_head, layout_vars, smush_vars, render_vars, parse_font_vars>>

NextParse ==
    \/ ParseReturn
    \/ ParsePanic

SpecParse == InitParse /\ [][NextParse]_vars

----------------------------------------------------------------------------
(* convert run on every message of up to MaxMessage characters, with every  *)
(* font of the bounded domain: its glyphs have Height rows of one width of  *)
(* up to MaxWidth characters.                                               *)

Height == 2
MaxWidth == 2
MaxMessage == 2

GlyphChars == {" ", "[", "]"}

\* With "]" the hardblank, the glyphs hold hardblanks; with "$", none.
RenderHardblanks == {"$", "]"}

\* (full_layout, old_layout): FullWidth; Fitting by the legacy code;
\* UniversalSmush; Fitting with HorizontalSmushing in its rule list;
\* ControlledSmush with HorizontalEqualChar alone, with the legacy code of
\* standard.flf, and with HorizontalHardblank, HorizontalOppositePair and
\* HorizontalEqualChar.
RenderLayouts ==
    {<< <<>>, -1 >>, << <<>>, 0 >>, << <<128>>, 0 >>, << <<192>>, 0 >>,
     << <<1>>, 0 >>, << <<>>, 15 >>, << <<41>>, 0 >>}

\* Keys of the glyph table, among the codes parse_font assigns (line 86).
Codes == {65, 66}

\* The code points a message is made of: two with a glyph, one without, and
\* one above 65535 whose low 16 bits are 65.
MessageChars == {65, 66, 67, 65601}

Glyphs == UNION {[1..Height -> [1..w -> GlyphChars]] : w \in 0..MaxWidth}

\* The Font parse_font builds (lines 104-112) from a header and a glyph table.
Font(hb, layout, table) ==
    [font_head |-> [hardblank |-> hb, height |-> Height,
                    full_layout |-> layout[1], old_layout |-> layout[2]],
     chars |-> table,
     rules |-> Rules(get_layout(layout[1], layout[2]))]

InitRender ==
    /\ \E hb \in RenderHardblanks, layout \in RenderLayouts,
          table \in [Codes -> Glyphs] :
          /\ layout_returns(layout[1], layout[2])
          /\ font = Font(hb, layout, table)
    /\ message = <<>>
    /\ result = empty_rows(font.font_head.height)
    /\ last = NoLast
    /\ banner = <<>>
    /\ render_pc = "loop"
    /\ LayoutIdle
    /\ SmushIdle
    /\ ParseIdle
    /\ ParseFontIdle

\* One iteration of the loop of lines 171-174 that completes.
ConvertChar(c) ==
    /\ render_pc = "loop"
    /\ Len(message) < MaxMessage
    /\ as_u16(c) \in DOMAIN font.chars
    /\ LET figchar == font.chars[as_u16(c)]
           added == add_char(font, result, figchar)
       IN  /\ added[1] = "ok"
           /\ result' = added[2]
           /\ last' = [c |-> c, key |-> as_u16(c), figchar |-> figchar,
                       before |-> result, overlay |-> added[3]]
    /\ message' = Append(message, c)
    /\ UNCHANGED <<font, banner, render_pc, layout_vars, smush_vars, parse_vars, parse_font_vars>>

\* Line 172: the unwrap of a key that is not in the table.
ConvertLookupPanic(c) ==
    /\ render_pc = "loop"
    /\ Len(message) < MaxMessage
    /\ as_u16(c) \notin DOMAIN font.chars
    /\ message' = Append(message, c)
    /\ last' = [c |-> c, key |-> as_u16(c), figchar |-> <<>>,
                before |-> result, overlay |-> 0]
    /\ render_pc' = "lookup_panic"
    /\ UNCHANGED <<font, result, banner, layout_vars, smush_vars, parse_vars, parse_font_vars>>

\* Line 173: add_char aborts.
ConvertAddCharPanic(c) ==
    /\ render_pc = "loop"
    /\ Len(message) < MaxMessage
    /\ as_u16(c) \in DOMAIN font.chars
    /\ LET figchar == font.chars[as_u16(c)]
           added == add_char(font, result, figchar)
       IN  /\ added[1] # "ok"
           /\ render_pc' = added[1]
           /\ last' = [c |-> c, key |-> as_u16(c), figchar |-> figchar,
                       before |-> result, overlay |-> added[3]]
    /\ message' = Append(message, c)
    /\ UNCHANGED <<font, result, banner, layout_vars, smush_vars, parse_vars, parse_font_vars>>

\* Lines 175-179: the message is consumed.
ConvertReturn ==
    /\ render_pc = "loop"
    /\ banner' = join(result)
    /\ render_pc' = "returned"
    /\ UNCHANGED <<font, message, result, last, layout_vars, smush_vars, parse_vars, parse_font_vars>>

NextRender ==
    \/ \E c \in MessageChars : ConvertChar(c)
    \/ \E c \in MessageChars : ConvertLookupPanic(c)
    \/ \E c \in MessageChars : ConvertAddCharPanic(c)
    \/ ConvertReturn

SpecRender == InitRender /\ [][NextRender]_vars

----------------------------------------------------------------------------
(* parse_font run on every font file of the bounded domain: a header line   *)
(* and up to MaxLines lines of up to MaxLineLen characters after it.        *)

MaxLines == 3
MaxLineLen == 3

\* The characters of a line: "@" is the usual end-mark.
LineChars == {"[", "@"}

FontLines == UNION {[1..n -> LineChars] : n \in 0..MaxLineLen}

\* Header lines: height 0, 1 or 2; old_layout -1, 0 or the -2 get_layout aborts
\* on; no or one comment line; a header whose height is no number; a header
\* of the signature alone; and no header line at all.
FontHeaders ==
    {<<>>} \cup
    {<< <<sig>> >> : sig \in Signatures} \cup
    {<< <<sig, <<"x">>, <<"8">>, <<"8">>, <<"0">>, <<"0">> >> >> : sig \in Signatures} \cup
    {<< <<sig, height, <<"8">>, <<"8">>, old, comment_lines>> >> :
        sig \in Signatures,
        height \in {<<"0">>, <<"1">>, <<"2">>},
        old \in {<<"-", "1">>, <<"0">>, <<"-", "2">>},
        comment_lines \in {<<"0">>, <<"1">>}}

FontName == "standard.flf"

InitParseFont ==
    /\ \E header \in FontHeaders, n \in 0..MaxLines :
          \E rest \in [1..n -> FontLines] :
              data = [header |-> header, rest |-> rest]
    /\ parsed = <<"Err">>
    /\ parse_font_pc = "call"
    /\ LayoutIdle
    /\ SmushIdle
    /\ ParseIdle
    /\ RenderIdle

ParseFontReturn ==
    /\ parse_font_pc = "call"
    /\ parse_font(FontName, data)[1] # "panic"
    /\ parsed' = parse_font(FontName, data)
    /\ parse_font_pc' = "returned"
    /\ UNCHANGED <<data, layout_vars, smush_vars, parse_vars, render_vars>>

ParseFontPanic ==
    /\ parse_font_pc = "call"
    /\ parse_font(FontName, data)[1] = "panic"
    /\ parse_font_pc' = "panic"
    /\ UNCHANGED <<data, parsed, layout_vars, smush_vars, parse_vars, render_vars>>

NextParseFont ==
    \/ ParseFontReturn
    \/ ParseFontPanic

SpecParseFont == InitParseFont /\ [][NextParseFont]_vars

----------------------------------------------------------------------------
(* Claims about the layout decoder. *)

\* What the claims call the code, and its bits. A negative code has no bit
\* set: the decoder matches no rule against it.
LayoutCode == unwrap_or(full_layout, old_layout)

HorizontalBits == {b \in Range(SmushingRule) : b <= HorizontalSmushing}
VerticalBits == {b \in Range(SmushingRule) : b >= VerticalEqualChar}

BitSet(code, b) == code >= 0 /\ (code \div b) % 2 = 1

BitsSet(code, bits) == {b \in bits : BitSet(code, b)}

LowestBit(code, bits) ==
    CHOOSE b \in BitsSet(code, bits) : \A c \in BitsSet(code, bits) : b <= c

ModeOfHorizontalBit(b) ==
    IF b = 64 THEN "Fitting"
    ELSE IF b = 128 THEN "UniversalSmush"
    ELSE "ControlledSmush"

\* The members of bits, greatest first.
RECURSIVE Descending(_)
Descending(bits) ==
    IF bits = {} THEN <<>>
    ELSE LET m == CHOOSE b \in bits : \A c \in bits : c <= b
         IN <<m>> \o Descending(bits \ {m})

HorizontalModeAsClaimed ==
    IF BitsSet(LayoutCode, HorizontalBits) # {}
    THEN /\ layout_pc = "returned"
         /\ rules.horizontal_layout =
                ModeOfHorizontalBit(LowestBit(LayoutCode, HorizontalBits))
    ELSE /\ old_layout = 0 =>
                layout_pc = "returned" /\ rules.horizontal_layout = "Fitting"
         /\ old_layout = -1 =>
                layout_pc = "returned" /\ rules.horizontal_layout = "FullWidth"

\* C1 as stated: for every code, the horizontal mode is the mode of the
\* lowest horizontal bit set in the code (64: Fitting, 128: UniversalSmush,
\* 1..32: ControlledSmush), and with no horizontal bit set it is Fitting
\* when old_layout = 0 and FullWidth when old_layout = -1.
C1_AsStated ==
    layout_pc # "call" => HorizontalModeAsClaimed

\* C1 as amended: the same for every code below 32768 = 2 * 16384, the
\* codes the greedy subtraction decomposes into their own bits.
C1_HorizontalMode ==
    (layout_pc # "call" /\ LayoutCode < 2 * VerticalSmushing)
        => HorizontalModeAsClaimed

\* Some(192) decodes to Fitting, the mode of 64, although 128 is set too.
C1_Witness ==
    /\ layout_pc = "returned"
    /\ full_layout = <<192>>
    /\ rules.horizontal_layout = "Fitting"

\* The rule list the claim describes for one axis: the bits set, greatest
\* first, without the axis' universal rule when the mode is ControlledSmush.
RulesAsClaimed(code, bits, mode, universal) ==
    Descending(BitsSet(code, bits)
                 \ (IF mode = "ControlledSmush" THEN {universal} ELSE {}))

\* C2: for every code in 0..32767 with a horizontal bit set, horizontal_rules
\* are the horizontal rules whose bit is set, greatest first, without
\* HorizontalSmushing exactly when the horizontal mode is ControlledSmush, and
\* vertical_rules the vertical rules whose bit is set, greatest first, without
\* VerticalSmushing exactly when the vertical mode is ControlledSmush; 18319
\* gives 4 and 3 rules, 24463 gives 4 and 5.
C2_RuleLists ==
    (/\ layout_pc # "call"
     /\ LayoutCode \in 0..32767
     /\ BitsSet(LayoutCode, HorizontalBits) # {})
        => /\ layout_pc = "returned"
           /\ rules.horizontal_rules =
                  RulesAsClaimed(LayoutCode, HorizontalBits,
                                 rules.horizontal_layout, HorizontalSmushing)
           /\ rules.vertical_rules =
                  RulesAsClaimed(LayoutCode, VerticalBits,
                                 rules.vertical_layout, VerticalSmushing)
           /\ LayoutCode = 18319 =>
                  Len(rules.horizontal_rules) = 4 /\ Len(rules.vertical_rules) = 3
           /\ LayoutCode = 24463 =>
                  Len(rules.horizontal_rules) = 4 /\ Len(rules.vertical_rules) = 5

\* slant.flf's layout, decoded: both universal rules are set and omitted.
C2_Witness ==
    /\ layout_pc = "returned"
    /\ full_layout = <<18319>>
    /\ rules.horizontal_rules = <<8, 4, 2, 1>>
    /\ rules.vertical_rules = <<1024, 512, 256>>

NoDuplicates(s) == \A i, j \in DOMAIN s : s[i] = s[j] => i = j

\* C3: whenever get_layout returns, every rule in horizontal_rules is a
\* horizontal rule (value <= 128), every rule in vertical_rules is a vertical
\* rule (value >= 256), and no rule appears twice or in both lists.
C3_AsStated ==
    layout_pc = "returned"
        => /\ \A r \in Range(rules.horizontal_rules) : r <= 128
           /\ \A r \in Range(rules.vertical_rules) : r >= 256
           /\ NoDuplicates(rules.horizontal_rules \o rules.vertical_rules)

\* C4: get_layout returns a Rules value with both modes defined for every
\* full_layout and every old_layout, and never aborts.
C4_AsStated ==
    /\ layout_pc # "panic"
    /\ layout_pc = "returned"
           => /\ rules.horizontal_layout \in LayoutMode
              /\ rules.vertical_layout \in LayoutMode

----------------------------------------------------------------------------
(* Claims about the rule table. *)

\* The opening and the closing bracket of one kind, in either order.
MatchingBrackets(a, b) ==
    \E pair \in {<<"[", "]">>, <<"{", "}">>, <<"(", ")">>} :
        <<a, b>> = pair \/ <<b, a>> = pair

\* C6: HorizontalOppositePair.smush(a, b, hardblank) is '|' exactly when a
\* and b are the opening and the closing bracket of the same kind, in either
\* order, and none for every other pair, a space on either side included.
C6_AsStated ==
    (smush_pc = "returned" /\ rule = HorizontalOppositePair)
        => smushed = IF MatchingBrackets(char1, char2) THEN <<"|">> ELSE <<>>

----------------------------------------------------------------------------
(* Claims about the header parser. *)

Unsigned(tok) == \A i \in DOMAIN tok : tok[i] \in Range(digits)

Signed(tok) == Unsigned(tok) \/ (Len(tok) > 1 /\ tok[1] = "-" /\ Unsigned(Tail(tok)))

\* Token i of the line is there and is a number of its field's type.
NumericField(i) ==
    /\ i <= Len(line)
    /\ IF i = 5 THEN Signed(line[i]) ELSE Unsigned(line[i])

MandatoryNumeric == \A i \in 2..6 : NumericField(i)

\* C7: parse returns an Err (it does not abort) whenever one of height,
\* baseline, max_length, old_layout, comment_lines is missing or not numeric,
\* and returns Ok when the five are numeric (and print_direction is absent or
\* numeric), whatever full_layout and codetag_count hold.
C7_AsStated ==
    (parse_pc # "call" /\ Len(line) >= 1)
        => /\ ~MandatoryNumeric
                 => parse_pc = "returned" /\ font_head = <<"Err">>
           /\ (MandatoryNumeric /\ (Len(line) >= 7 => Unsigned(line[7])))
                 => parse_pc = "returned" /\ font_head[1] = "Ok"

----------------------------------------------------------------------------
(* Claims about the render engine. *)

\* The last iteration got as far as add_char.
Appended == message # <<>> /\ render_pc # "lookup_panic"

Rows == 1..font.font_head.height

\* Row r of the glyphs stored under the codes of msg, one after the other.
RECURSIVE Concatenation(_, _)
Concatenation(msg, r) ==
    IF msg = <<>> THEN <<>>
    ELSE font.chars[Head(msg)][r] \o Concatenation(Tail(msg), r)

RECURSIVE SumOfWidths(_, _)
SumOfWidths(msg, r) ==
    IF msg = <<>> THEN 0
    ELSE Len(font.chars[Head(msg)][r]) + SumOfWidths(Tail(msg), r)

\* The width of each line of a banner, in order.
RECURSIVE LineWidths(_, _)
LineWidths(text, width) ==
    IF text = <<>> THEN <<width>>
    ELSE IF Head(text) = "\n" THEN <<width>> \o LineWidths(Tail(text), 0)
    ELSE LineWidths(Tail(text), width + 1)

\* C5: with the horizontal mode FullWidth, convert concatenates, for every
\* message whose characters all have glyphs: calc_overlay is 0 for every
\* glyph appended, the columns of the accumulator stay as they were, and
\* each banner row is as wide as the message's glyph rows together.
C5_FullWidthConcatenates ==
    (/\ font.rules.horizontal_layout = "FullWidth"
     /\ render_pc # "idle"
     /\ \A i \in DOMAIN message : message[i] \in DOMAIN font.chars)
        => /\ render_pc \in {"loop", "returned"}
           /\ message # <<>> =>
                 /\ last.overlay = 0
                 /\ \A r \in Rows :
                        SubSeq(result[r], 1, Len(last.before[r])) = last.before[r]
           /\ \A r \in Rows :
                 /\ result[r] = Concatenation(message, r)
                 /\ Len(result[r]) = SumOfWidths(message, r)
           /\ render_pc = "returned" =>
                 LineWidths(banner, 0) = [r \in Rows |-> SumOfWidths(message, r)]

\* A FullWidth banner of two glyphs whose facing columns are blank.
C5_Witness ==
    /\ font.rules.horizontal_layout = "FullWidth"
    /\ render_pc = "returned"
    /\ message = <<65, 66>>
    /\ \A r \in Rows :
          /\ Len(font.chars[65][r]) = 2 /\ font.chars[65][r][2] = " "
          /\ Len(font.chars[66][r]) = 2 /\ font.chars[66][r][1] = " "
    /\ Len(banner) = 9

\* C8: every message character is rendered with the glyph stored under its
\* own code, and a character whose code point is not in the glyph table
\* (code points above 65535 included) is a lookup failure of that call.
C8_AsStated ==
    (render_pc # "idle" /\ message # <<>>)
        => IF last.c \in DOMAIN font.chars
           THEN render_pc # "lookup_panic" /\ last.key = last.c
           ELSE render_pc = "lookup_panic"

\* Column col of accumulator row r meets column k of the glyph row (both
\* counted from 1) in the last add_char.
Met(r, col, k) ==
    /\ k \in 1..last.overlay
    /\ k <= Len(last.figchar[r])
    /\ col = Len(last.before[r]) - last.overlay + k
    /\ col \in 1..Len(last.before[r])

LastNonSpace(row) ==
    CHOOSE i \in 0..Len(row) :
        /\ i > 0 => row[i] # " "
        /\ \A j \in (i + 1)..Len(row) : row[j] = " "

FirstNonSpace(row) ==
    CHOOSE i \in 1..(Len(row) + 1) :
        /\ i <= Len(row) => row[i] # " "
        /\ \A j \in 1..(i - 1) : row[j] = " "

\* Some rule in force applies to the pair: the universal rule in
\* UniversalSmush, a rule of the font's horizontal list otherwise.
RuleApplies(a, b) ==
    LET hb == font.font_head.hardblank IN
    \/ /\ font.rules.horizontal_layout = "UniversalSmush"
       /\ smush(HorizontalSmushing, a, b, hb) # <<>>
    \/ /\ font.rules.horizontal_layout # "UniversalSmush"
       /\ \E x \in Range(font.rules.horizontal_rules) : smush(x, a, b, hb) # <<>>

\* C9: with the Rules of get_layout in a mode other than FullWidth and
\* rectangular glyphs of height rows, every pair of characters that add_char
\* combines gets a merged character (never none): two characters that are
\* both not spaces meet only as the last non-space of the accumulator row
\* and the first non-space of the glyph row, and a rule applies to that pair.
C9_CombinedPairsMerge ==
    (font.rules.horizontal_layout # "FullWidth" /\ Appended)
        => /\ render_pc # "none_panic"
           /\ \A r \in Rows : \A k \in 1..last.overlay :
                 \A col \in 1..Len(last.before[r]) :
                    Met(r, col, k) =>
                       LET a == last.before[r][col]
                           b == last.figchar[r][k]
                       IN  (a # " " /\ b # " ")
                              => /\ col = LastNonSpace(last.before[r])
                                 /\ k = FirstNonSpace(last.figchar[r])
                                 /\ RuleApplies(a, b)
                                 /\ render_pc = "loop" => result[r][col] # " "

\* In a ControlledSmush font, "[" and "]" met in one row and became "|"
\* while the other row had room to spare.
C9_Witness ==
    /\ font.rules.horizontal_layout = "ControlledSmush"
    /\ render_pc = "loop"
    /\ Len(message) = 2
    /\ \E r \in Rows : \E col \in 1..Len(last.before[r]), k \in 1..last.overlay :
          /\ Met(r, col, k)
          /\ last.before[r][col] = "["
          /\ last.figchar[r][k] = "]"
          /\ result[r][col] = "|"
          /\ \E q \in Rows :
                trailing_spaces(last.before[q]) + leading_spaces(last.figchar[q])
                    > last.overlay

\* C10: in a mode other than FullWidth with rectangular glyphs, the overlay
\* of the next glyph is at most the accumulator's row width and at most the
\* width of the glyph's rows, so add_char reads no column outside either row
\* and the banner does not get narrower when a character is appended.
C10_AsStated ==
    (font.rules.horizontal_layout # "FullWidth" /\ Appended)
        => /\ \A r \in Rows :
                 /\ last.overlay <= Len(last.before[r])
                 /\ last.overlay <= Len(last.figchar[r])
                 /\ Len(result[r]) >= Len(last.before[r])
           /\ render_pc # "index_panic"

----------------------------------------------------------------------------
(* The vertical side of the layout decoder. *)

\* C12: when get_layout returns, with VerticalSmushing (16384) the only
\* vertical bit set in the code the vertical mode is UniversalSmush and
\* vertical_rules is VerticalSmushing alone; with VerticalFitting (8192) the
\* lowest vertical bit set the vertical mode is Fitting; with no vertical bit
\* set the vertical mode is FullWidth.
C12_AsStated ==
    layout_pc = "returned" =>
        LET vertical == BitsSet(LayoutCode, VerticalBits) IN
        /\ vertical = {VerticalSmushing} =>
               /\ rules.vertical_layout = "UniversalSmush"
               /\ rules.vertical_rules = <<VerticalSmushing>>
        /\ (vertical # {} /\ LowestBit(LayoutCode, VerticalBits) = VerticalFitting)
               => rules.vertical_layout = "Fitting"
        /\ vertical = {} => rules.vertical_layout = "FullWidth"

----------------------------------------------------------------------------
(* Claims about parse_font. *)

ParsedFont == parse_font_pc = "returned" /\ parsed[1] = "Ok"

\* The lines of data after the header and the comment: the glyph lines.
GlyphLines == after_take(data.rest, parsed[2].font_head.comment_lines)

\* The glyph line the row r of the i-th glyph was read from.
SourceLine(i, r) == GlyphLines[(i - 1) * parsed[2].font_head.height + r]

\* A line without its last character, the end-mark.
WithoutEndMark(l) == SubSeq(l, 1, Len(l) - 1)

\* C11: every stored row of a parsed font is its glyph line without the
\* line's last character, the characters before it kept in their order, also
\* when the end-mark's character occurs earlier in the line; and the rows of a
\* glyph whose source lines have one length have one width.
C11_AsStated ==
    ParsedFont =>
        \A i \in DOMAIN char_nums :
            char_nums[i] \in DOMAIN parsed[2].chars =>
                LET glyph == parsed[2].chars[char_nums[i]] IN
                /\ \A r \in DOMAIN glyph :
                       glyph[r] = WithoutEndMark(SourceLine(i, r))
                /\ (\A r, q \in DOMAIN glyph :
                        Len(SourceLine(i, r)) = Len(SourceLine(i, q)))
                   => \A r, q \in DOMAIN glyph : Len(glyph[r]) = Len(glyph[q])

====
